---- MODULE Spec2Model ----
(***************************************************************************)
(* A model of the data-lake ingestion code of the credit-card transaction  *)
(* warehouse: the S3 helper functions of utils/s3_utils.py, the raw-tier   *)
(* driver ingest_raw of src/bronze/transactions.py, and the layer manager  *)
(* (ingest_data, load_from_previous_layer, the key builder) that the       *)
(* driver imports.                                                         *)
(*                                                                         *)
(* Object keys, metadata keys and metadata values are real strings; a      *)
(* dataset is its ordered column names and its rows of typed cells; the    *)
(* bytes of an object are the encoding, the writer and the encoded cells.  *)
(* Every call of the S3 client is one atomic step whose outcome the        *)
(* environment chooses (success, 403, connection error).                   *)
(***************************************************************************)
EXTENDS Integers, Sequences, FiniteSets, TLC

(***************************************************************************)
(* Bounds of the model.                                                    *)
(***************************************************************************)
\* top-level calls one behaviour makes
MaxCalls == 2
\* S3 client calls the environment may fail in one behaviour
MaxFaults == 1
\* files in the data directory of one ingest_raw run
MaxDirFiles == 2
\* ingest_raw runs one behaviour makes
MaxRuns == 1

Procs == {"p1", "p2"}

None == "None"

(***************************************************************************)
(* Strings.                                                                *)
(***************************************************************************)
Digit(n) == SubSeq("0123456789", n + 1, n + 1)

\* str(n) of a natural number
RECURSIVE Str(_)
Str(n) == IF n < 10 THEN Digit(n) ELSE Str(n \div 10) \o Digit(n % 10)

\* f"{n:02d}", the width of %m, %d, %H, %M, %S
Pad2(n) == IF n < 10 THEN "0" \o Digit(n) ELSE Str(n)

\* f"{n:04d}", the width of %Y
Pad4(n) ==
    IF n < 10 THEN "000" \o Str(n)
    ELSE IF n < 100 THEN "00" \o Str(n)
    ELSE IF n < 1000 THEN "0" \o Str(n)
    ELSE Str(n)

startswith(s, prefix) ==
    Len(prefix) <= Len(s) /\ SubSeq(s, 1, Len(prefix)) = prefix

endswith(s, suffix) ==
    Len(suffix) <= Len(s) /\ SubSeq(s, Len(s) - Len(suffix) + 1, Len(s)) = suffix

Upper == "ABCDEFGHIJKLMNOPQRSTUVWXYZ"
Lower == "abcdefghijklmnopqrstuvwxyz"

UpperChars == {SubSeq(Upper, i, i) : i \in 1..26}

LowerOf == [c \in UpperChars |->
              LET i == CHOOSE j \in 1..26 : SubSeq(Upper, j, j) = c
              IN  SubSeq(Lower, i, i)]

LowerChar(c) == IF c \in UpperChars THEN LowerOf[c] ELSE c

\* str.lower()
RECURSIVE lower(_)
lower(s) ==
    IF Len(s) = 0 THEN ""
    ELSE LowerChar(SubSeq(s, 1, 1)) \o lower(SubSeq(s, 2, Len(s)))

\* sep.join(names)
RECURSIVE join(_, _)
join(sep, names) ==
    IF Len(names) = 0 THEN ""
    ELSE IF Len(names) = 1 THEN names[1]
    ELSE names[1] \o sep \o join(sep, Tail(names))

(***************************************************************************)
(* Datasets (pandas DataFrames): ordered column names and rows of cells.   *)
(* A cell is its dtype and its text.                                       *)
(***************************************************************************)
IntCell(s) == [t |-> "int", s |-> s]
StrCell(s) == [t |-> "str", s |-> s]

\* pd.DataFrame()
EmptyDF == [columns |-> <<>>, rows |-> <<>>]

\* 3 rows, columns id, amount
DfA ==
    [columns |-> <<"id", "amount">>,
     rows |-> << <<IntCell("1"), IntCell("10")>>,
                 <<IntCell("2"), IntCell("20")>>,
                 <<IntCell("3"), IntCell("30")>> >>]

\* 1 row, with a text cell that reads as a number
DfB ==
    [columns |-> <<"id", "amount">>,
     rows |-> << <<IntCell("7"), StrCell("70")>> >>]

\* df.shape
shape(df) == <<Len(df.rows), Len(df.columns)>>

\* Variant: no frame counts as empty.
empty_never(df) == FALSE

\* df.empty: any axis of length 0
empty(df) == Len(df.rows) = 0 \/ Len(df.columns) = 0

\* pd.concat(dfs, ignore_index=True) of frames with the same columns
RECURSIVE concat(_)
concat(dfs) ==
    IF Len(dfs) = 0 THEN EmptyDF
    ELSE IF Len(dfs) = 1 THEN dfs[1]
    ELSE LET rest == concat(Tail(dfs))
         IN  [columns |-> dfs[1].columns, rows |-> dfs[1].rows \o rest.rows]

(***************************************************************************)
(* Bytes.  An object's bytes are its encoding, the writer that encoded it, *)
(* and the encoded columns and cells.                                      *)
(***************************************************************************)
IsNumeric(s) ==
    Len(s) > 0 /\ \A i \in 1..Len(s) : \E d \in 0..9 : SubSeq(s, i, i) = Digit(d)

\* pq.write_table(pa.Table.from_pandas(df), buffer): dtypes are kept
to_parquet(df) ==
    [enc |-> "parquet", writer |-> "pyarrow", columns |-> df.columns, rows |-> df.rows]

\* pq.read_table(buffer).to_pandas()
from_parquet(b) == [columns |-> b.columns, rows |-> b.rows]

\* df.to_csv(index=False): every cell is written as its text, the dtype is lost
to_csv(df) ==
    [enc |-> "csv", writer |-> "pandas", columns |-> df.columns,
     rows |-> [i \in 1..Len(df.rows) |->
                 [j \in 1..Len(df.rows[i]) |-> StrCell(df.rows[i][j].s)]]]

\* pd.read_csv: a column is int64 when every cell of it parses as a number
from_csv(b) ==
    LET numeric(j) == \A i \in 1..Len(b.rows) : IsNumeric(b.rows[i][j].s)
    IN  [columns |-> b.columns,
         rows |-> [i \in 1..Len(b.rows) |->
                     [j \in 1..Len(b.rows[i]) |->
                        IF numeric(j) THEN IntCell(b.rows[i][j].s)
                        ELSE StrCell(b.rows[i][j].s)]]]

\* df.to_json(orient='records', lines=lines): one object per row, values typed;
\* with no rows nothing names the columns
to_json(df) ==
    [enc |-> "json", writer |-> "pandas",
     columns |-> IF Len(df.rows) = 0 THEN <<>> ELSE df.columns,
     rows |-> df.rows]

from_json(b) == [columns |-> b.columns, rows |-> b.rows]

(***************************************************************************)
(* Errors and results of calls.                                            *)
(***************************************************************************)
NoError == [type |-> "", code |-> ""]
ClientError(code) == [type |-> "ClientError", code |-> code]
EndpointConnectionError == [type |-> "EndpointConnectionError", code |-> ""]
FileNotFoundError == [type |-> "FileNotFoundError", code |-> ""]
EmptyDataError == [type |-> "EmptyDataError", code |-> ""]
ValueError == [type |-> "ValueError", code |-> ""]
UnsupportedFormatError == [type |-> "UnsupportedFormatError", code |-> ""]
KeyError == [type |-> "KeyError", code |-> ""]

Return(v) == [ok |-> TRUE, err |-> NoError, val |-> v]
Raise(e) == [ok |-> FALSE, err |-> e, val |-> None]

(***************************************************************************)
(* The S3 client (boto3).  The outcome f of a request is the environment's:*)
(* "ok", or a failure the request ends with.                               *)
(***************************************************************************)
Faults == {"403", "conn"}
Outcomes == {"ok"} \cup Faults

FaultError(f) == IF f = "conn" THEN EndpointConnectionError ELSE ClientError(f)

\* s3_client.head_object(Bucket, Key)
head_object(s3, key, f) ==
    IF f # "ok" THEN Raise(FaultError(f))
    ELSE IF key \in DOMAIN s3 THEN Return(s3[key].Metadata)
    ELSE Raise(ClientError("404"))

\* s3_client.get_object(Bucket, Key)['Body'].read()
get_object(s3, key, f) ==
    IF f # "ok" THEN Raise(FaultError(f))
    ELSE IF key \in DOMAIN s3 THEN Return(s3[key].Body)
    ELSE Raise(ClientError("NoSuchKey"))

\* Variant: a put that keeps the object a key already has.
put_object_if_absent(s3, key, body, content_type, metadata, f) ==
    IF f # "ok" THEN Raise(FaultError(f))
    ELSE Return(s3 @@ (key :> [Body |-> body, ContentType |-> content_type,
                               Metadata |-> metadata]))

\* s3_client.put_object(Body, Bucket, Key, ContentType, Metadata): the bucket after
\* the request (a failed request stores nothing)
put_object(s3, key, body, content_type, metadata, f) ==
    IF f # "ok" THEN Raise(FaultError(f))
    ELSE Return((key :> [Body |-> body, ContentType |-> content_type,
                         Metadata |-> metadata]) @@ s3)

(***************************************************************************)
(* utils/s3_utils.py                                                       *)
(***************************************************************************)
\* The order S3 lists keys in: by the code points of their characters.
Alphabet == "./0123456789=ABCDEFGHIJKLMNOPQRSTUVWXYZ_abcdefghijklmnopqrstuvwxyz"

Rank(c) == CHOOSE i \in 1..Len(Alphabet) : SubSeq(Alphabet, i, i) = c

RECURSIVE StrLess(_, _)
StrLess(a, b) ==
    IF Len(b) = 0 THEN FALSE
    ELSE IF Len(a) = 0 THEN TRUE
    ELSE LET ca == SubSeq(a, 1, 1)
             cb == SubSeq(b, 1, 1)
         IN  IF ca = cb THEN StrLess(SubSeq(a, 2, Len(a)), SubSeq(b, 2, Len(b)))
             ELSE Rank(ca) < Rank(cb)

RECURSIVE Sorted(_)
Sorted(keys) ==
    IF keys = {} THEN <<>>
    ELSE LET k == CHOOSE x \in keys : \A y \in keys \ {x} : StrLess(x, y)
         IN  <<k>> \o Sorted(keys \ {k})

\* paginator.paginate(Bucket, Prefix): the keys of the bucket with the prefix
list_objects_v2(s3, prefix, f) ==
    IF f # "ok" THEN Raise(FaultError(f))
    ELSE Return(Sorted({k \in DOMAIN s3 : startswith(k, prefix)}))

\* Variant: a check that never finds the key (True is never returned).
check_file_exists_never_present(s3, key, f) ==
    LET r == head_object(s3, key, f)
    IN  IF r.ok \/ (r.err.type = "ClientError" /\ r.err.code = "404")
        THEN Return(FALSE)
        ELSE Raise(r.err)

\* Variant: a check that answers False for every failure of the request.
check_file_exists_swallowing(s3, key, f) ==
    LET r == head_object(s3, key, f)
    IN  IF r.ok THEN Return(TRUE) ELSE Return(FALSE)

check_file_exists(s3, key, f) ==
    LET r == head_object(s3, key, f)
    IN  IF r.ok THEN Return(TRUE)
        ELSE IF r.err.type = "ClientError" /\ r.err.code = "404" THEN Return(FALSE)
        ELSE Raise(r.err)

\* Variant: a listing that does not filter by suffix.
list_objects_unfiltered(s3, prefix, suffix, f) ==
    LET r == list_objects_v2(s3, prefix, f)
    IN  IF ~r.ok THEN Raise(r.err) ELSE Return(r.val)

list_objects(s3, prefix, suffix, f) ==
    LET r == list_objects_v2(s3, prefix, f)
    IN  IF ~r.ok THEN Raise(r.err)
        ELSE Return(SelectSeq(r.val, LAMBDA key : suffix = "" \/ endswith(key, suffix)))

\* fh is the outcome of the head request, fg of the get request
read_csv_from_s3(s3, key, fh, fg) ==
    LET e == check_file_exists(s3, key, fh)
    IN  IF ~e.ok THEN Raise(e.err)
        ELSE IF ~e.val THEN Raise(FileNotFoundError)
        ELSE LET obj == get_object(s3, key, fg)
             IN  IF ~obj.ok THEN Raise(obj.err)
                 ELSE IF obj.val.enc # "csv" THEN Raise(ValueError)
                 ELSE IF Len(obj.val.columns) = 0 THEN Raise(EmptyDataError)
                 ELSE Return(from_csv(obj.val))

read_parquet_from_s3(s3, key, fh, fg) ==
    LET e == check_file_exists(s3, key, fh)
    IN  IF ~e.ok THEN Raise(e.err)
        ELSE IF ~e.val THEN Raise(FileNotFoundError)
        ELSE LET obj == get_object(s3, key, fg)
             IN  IF ~obj.ok THEN Raise(obj.err)
                 ELSE IF obj.val.enc # "parquet" THEN Raise(ValueError)
                 ELSE Return(from_parquet(obj.val))

\* The user the process runs as: os.environ.get('USER', 'unknown').
USER == "unknown"

\* datetime.now().isoformat() at tick t of the clock
isoformat(t) == "T" \o Pad4(t)

\* {k.lower(): str(v) for k, v in custom_metadata.items()}: a later entry replaces
\* an earlier one with the same lower-cased key
RECURSIVE sanitized_metadata(_)
sanitized_metadata(items) ==
    IF Len(items) = 0 THEN <<>>
    ELSE LET n == Len(items)
         IN  (lower(items[n][1]) :> items[n][2])
                @@ sanitized_metadata(SubSeq(items, 1, n - 1))

\* dict.update: the entries of other replace those of d
update(d, other) == other @@ d

\* Variant: the defaults replace the caller's entries.
prepare_metadata_defaults_last(custom_metadata, file_type, shp, t) ==
    LET c == sanitized_metadata(custom_metadata)
        m0 == update(update(c, "created-at" :> isoformat(t)), "created-by" :> USER)
        m1 == IF file_type # "" THEN update(m0, "file-type" :> file_type) ELSE m0
    IN  IF Len(shp) > 0
        THEN update(update(m1, "rows" :> Str(shp[1])), "columns" :> Str(shp[2]))
        ELSE m1

\* custom_metadata: the caller's items in order (<<>> for None and for {});
\* shp: a pair (<<>> for None).  `if x:` is Len(x) > 0 for both.
prepare_metadata(custom_metadata, file_type, shp, t) ==
    LET m0 == ("created-at" :> isoformat(t)) @@ ("created-by" :> USER)
        m1 == IF file_type # "" THEN update(m0, "file-type" :> file_type) ELSE m0
        m2 == IF Len(shp) > 0
              THEN update(update(m1, "rows" :> Str(shp[1])), "columns" :> Str(shp[2]))
              ELSE m1
    IN  IF Len(custom_metadata) > 0
        THEN update(m2, sanitized_metadata(custom_metadata))
        ELSE m2

\* The bucket after the call, or the error raised.
write_csv_to_s3(s3, df, key, metadata, t, f) ==
    LET csv_buffer == to_csv(df)
        s3_metadata == prepare_metadata(metadata, "csv", shape(df), t)
        r == put_object(s3, key, csv_buffer, "text/csv", s3_metadata, f)
    IN  IF r.ok THEN Return(r.val) ELSE Raise(r.err)

\* partition_cols = None
write_parquet_to_s3(s3, df, key, metadata, t, f) ==
    LET s3_metadata == prepare_metadata(metadata, "parquet", shape(df), t)
        buffer == to_parquet(df)
        r == put_object(s3, key, buffer, "application/octet-stream", s3_metadata, f)
    IN  IF r.ok THEN Return(r.val) ELSE Raise(r.err)

write_json_to_s3(s3, data, key, metadata, t, f) ==
    LET json_data == to_json(data)
        s3_metadata == prepare_metadata(metadata, "json", shape(data), t)
        r == put_object(s3, key, json_data, "application/json", s3_metadata, f)
    IN  IF r.ok THEN Return(r.val) ELSE Raise(r.err)

(***************************************************************************)
(* write_parquet_to_s3 with partition_cols: the dataset is written to a    *)
(* temporary local directory, a file per combination of values of the      *)
(* partition columns, and every file of the directory is uploaded.         *)
(***************************************************************************)
\* os.path.join(a, b) for a relative b
path_join(a, b) == IF endswith(a, "/") THEN a \o b ELSE a \o "/" \o b

\* the position of column c of the frame
column_index(df, c) == CHOOSE i \in 1..Len(df.columns) : df.columns[i] = c

\* "c1=v1/c2=v2": the directory of the rows that have the row's values in the
\* partition columns
partition_dir(df, partition_cols, row) ==
    join("/", [j \in 1..Len(partition_cols) |->
                  partition_cols[j] \o "=" \o row[column_index(df, partition_cols[j])].s])

\* the file of a partition directory: "{uuid}-0.parquet"
partition_file(dir) == dir \o "/guid-0.parquet"

\* the rows of a partition directory, without the partition columns
partition_table(df, partition_cols, dir) ==
    LET cols == {partition_cols[j] : j \in 1..Len(partition_cols)}
        keep == SelectSeq([i \in 1..Len(df.columns) |-> i],
                          LAMBDA i : df.columns[i] \notin cols)
        mine == SelectSeq(df.rows, LAMBDA row : partition_dir(df, partition_cols, row) = dir)
    IN  [columns |-> [k \in 1..Len(keep) |-> df.columns[keep[k]]],
         rows |-> [n \in 1..Len(mine) |-> [k \in 1..Len(keep) |-> mine[n][keep[k]]]]]

\* pq.write_to_dataset(table, local_path, partition_cols): the files written, path
\* relative to local_path -> bytes; a partition column the table does not have
\* raises
write_to_dataset(df, partition_cols) ==
    IF \E j \in 1..Len(partition_cols) :
          \A i \in 1..Len(df.columns) : df.columns[i] # partition_cols[j]
    THEN Raise(KeyError)
    ELSE LET dirs == {partition_dir(df, partition_cols, df.rows[n]) : n \in 1..Len(df.rows)}
         IN  Return([file \in {partition_file(d) : d \in dirs} |->
                        to_parquet(partition_table(df, partition_cols,
                            CHOOSE d \in dirs : partition_file(d) = file))])

\* tempfile.mkdtemp(): a directory that did not exist, empty
mkdtemp_name(id) == "/tmp/tmp" \o Str(id)

\* shutil.rmtree(temp_dir): the directory and all it holds are gone
rmtree(temp, temp_dir) == [d \in DOMAIN temp \ {temp_dir} |-> temp[d]]

\* Variant: the directory is removed only when nothing was raised.
rmtree_unless_raised(temp, temp_dir, raised) ==
    IF raised THEN temp ELSE rmtree(temp, temp_dir)

\* try: ... finally: shutil.rmtree(temp_dir): run whether the body raised or not
finally_rmtree(temp, temp_dir, raised) ==
    rmtree(temp, temp_dir)

(***************************************************************************)
(* The layer manager that src/bronze/transactions.py imports               *)
(* (RawLayerManager and its base): the key builder, the serializer, the    *)
(* checksum and the metadata of an ingestion.                              *)
(***************************************************************************)
Tiers == <<"raw", "bronze", "silver">>

\* the tier a tier reads from
predecessor(tier) == IF tier = "silver" THEN "bronze" ELSE "raw"

SupportedFormats == {"parquet", "csv", "json"}

Date(Y, m, d, H, M, S) == [Y |-> Y, m |-> m, d |-> d, H |-> H, M |-> M, S |-> S]

\* f"{date:%Y%m%d_%H%M%S}"
timestamp(date) ==
    Pad4(date.Y) \o Pad2(date.m) \o Pad2(date.d) \o "_"
        \o Pad2(date.H) \o Pad2(date.M) \o Pad2(date.S)

\* date.isoformat()
date_isoformat(date) ==
    Pad4(date.Y) \o "-" \o Pad2(date.m) \o "-" \o Pad2(date.d) \o "T"
        \o Pad2(date.H) \o ":" \o Pad2(date.M) \o ":" \o Pad2(date.S)

\* "k1=v1/k2=v2/.../" in the order of the mapping's items
RECURSIVE partition_path(_)
partition_path(items) ==
    IF Len(items) = 0 THEN ""
    ELSE items[1][1] \o "=" \o items[1][2] \o "/" \o partition_path(Tail(items))

\* "{tier}/{source}/[{partition}/]{source}_{YYYYMMDD_HHMMSS}.{format}"
generate_key(tier, source, fmt, date, partition) ==
    tier \o "/" \o source \o "/" \o partition_path(partition)
        \o source \o "_" \o timestamp(date) \o "." \o fmt

\* "{tier}/{source}/"
layer_prefix(tier, source) == tier \o "/" \o source \o "/"

serialize(df, fmt) ==
    IF fmt = "parquet" THEN Return(to_parquet(df))
    ELSE IF fmt = "csv" THEN Return(to_csv(df))
    ELSE IF fmt = "json" THEN Return(to_json(df))
    ELSE Raise(UnsupportedFormatError)

CellText(c) == c.t \o ":" \o c.s

RowText(row) == join(",", [j \in 1..Len(row) |-> CellText(row[j])])

\* The hex digest of the bytes; distinct bytes have distinct digests here.
hexdigest(b) ==
    "md5(" \o b.enc \o "|" \o b.writer \o "|" \o join(",", b.columns) \o "|"
        \o join(";", [i \in 1..Len(b.rows) |-> RowText(b.rows[i])]) \o ")"

\* The caller's entries, then the entries of the ingestion, which replace a
\* caller's entry of the same name.
build_metadata(source, tier, date, digest, fmt, extra) ==
    extra \o << <<"source", source>>, <<"layer", tier>>,
                <<"processing_date", date_isoformat(date)>>,
                <<"checksum", digest>>, <<"format", fmt>> >>

\* with the row and column computation pass
table_metadata(df) ==
    << <<"rows", Str(Len(df.rows))>>, <<"columns", join(",", df.columns)>> >>

(***************************************************************************)
(* The data directory of ingest_raw: the files a run may find in it.       *)
(***************************************************************************)
File(name, content) == [name |-> name, content |-> content]

SparkParquet(df) ==
    [enc |-> "parquet", writer |-> "spark", columns |-> df.columns, rows |-> df.rows]

JsonLines(df) ==
    [enc |-> "json", writer |-> "export", columns |-> df.columns, rows |-> df.rows]

PlainText == [enc |-> "text", writer |-> "editor", columns |-> <<>>, rows |-> <<>>]

DataFiles ==
    { File("a.csv", to_csv(DfA)),
      File("b.CSV", to_csv(DfB)),
      File("c.parquet", SparkParquet(DfA)),
      File("d.parquet", SparkParquet(DfB)),
      File("f.jsonl", JsonLines(DfB)),
      File("notes.txt", PlainText) }

\* str(file) for a file of the data directory
path_of(file) == "data/" \o file.name

\* Path.suffix: from the last dot of the name on
file_suffix(name) ==
    LET dots == {i \in 2..Len(name) : SubSeq(name, i, i) = "."}
    IN  IF dots = {} THEN ""
        ELSE LET i == CHOOSE j \in dots : \A k \in dots : k <= j
             IN  SubSeq(name, i, Len(name))

\* str.lstrip('.')
RECURSIVE lstrip_dot(_)
lstrip_dot(s) ==
    IF Len(s) > 0 /\ SubSeq(s, 1, 1) = "." THEN lstrip_dot(SubSeq(s, 2, Len(s))) ELSE s

\* file.read_bytes() of the file a source_key names
read_bytes(source_key) ==
    IF \E file \in DataFiles : path_of(file) = source_key
    THEN Return((CHOOSE file \in DataFiles : path_of(file) = source_key).content)
    ELSE Raise(FileNotFoundError)

\* pd.read_csv(file)
read_csv(file) ==
    IF file.content.enc # "csv" THEN Raise(ValueError)
    ELSE IF Len(file.content.columns) = 0 THEN Raise(EmptyDataError)
    ELSE Return(from_csv(file.content))

\* pd.read_json(file, lines=True)
read_json(file) ==
    IF file.content.enc # "json" THEN Raise(ValueError) ELSE Return(from_json(file.content))

(***************************************************************************)
(* Inputs.                                                                 *)
(***************************************************************************)
D1 == Date(2024, 3, 2, 10, 15, 0)
D2 == Date(2024, 3, 3, 0, 0, 0)

Sources == {"transactions"}
Frames == {EmptyDF, DfA, DfB}
IngestFormats == {"parquet", "csv", "xlsx"}
SourceKeys == {None, "data/d.parquet"}

LoadTiers == {"bronze", "silver"}
LoadFormats == {"parquet", "csv"}

\* the partition mapping ingest_raw passes: year, month, day of the date
ymd(date) ==
    << <<"year", Pad4(date.Y)>>, <<"month", Pad2(date.m)>>, <<"day", Pad2(date.d)>> >>

\* what callers of the write functions pass as metadata
CallerMetadata ==
    { <<>>,
      << <<"original_format", "csv">> >>,
      << <<"Rows", "999">> >>,
      << <<"columns", "id,amount">>, <<"checksum", "abc">> >> }

DirectKeys == {generate_key("raw", "transactions", "csv", D1, <<>>), "tmp/report.csv"}

Args(tier, source, df, date, fmt, partition, metadata, source_key, key, files) ==
    [tier |-> tier, source |-> source, df |-> df, date |-> date, fmt |-> fmt,
     partition |-> partition, metadata |-> metadata, source_key |-> source_key,
     key |-> key, files |-> files]

NoArgs == Args("", "", EmptyDF, D1, "", <<>>, <<>>, None, "", {})

\* what callers pass to ingest_data: the raw-tier manager takes a source_key, which
\* callers pass with format parquet
IngestCalls ==
    {a \in {Args("raw", source, df, D1, fmt, <<>>, <<>>, source_key, "", {}) :
                source \in Sources, df \in Frames, fmt \in IngestFormats,
                source_key \in SourceKeys} :
        a.source_key = None \/ a.fmt = "parquet"}
    \cup {Args("bronze", source, DfA, D1, "parquet", <<>>, <<>>, None, "", {}) :
            source \in Sources}
(***************************************************************************)
(* State.                                                                  *)
(***************************************************************************)
VARIABLES
    s3,      \* the bucket: object key -> [Body, ContentType, Metadata]
    clock,   \* the ticks of datetime.now()
    faults,  \* the requests the environment has failed
    ncalls,  \* the top-level calls made
    proc,    \* each process: where it is in the call it runs, and its locals
    done     \* the calls that returned or raised, in order

vars == <<s3, clock, faults, ncalls, proc, done>>

EmptyBucket == <<>>

Idle ==
    [pc |-> "idle", id |-> 0, started |-> 0, caller |-> "", file |-> "", a |-> NoArgs,
     key |-> "", trace |-> <<>>, reqs |-> <<>>, env |-> <<>>, before |-> EmptyBucket,
     raw |-> NoArgs, rawfiles |-> {}, rawbefore |-> EmptyBucket,
     keys |-> <<>>, dfs |-> <<>>,
     temp |-> <<>>, temp_dir |-> "", todo |-> {}, s3_metadata |-> <<>>]

\* A finished call: what it was given, what it did, how it ended.
Record(pr, op, a, ok, err, ret, out, before, after) ==
    [id |-> pr.id, started |-> pr.started, op |-> op, caller |-> IF op = "ingest_data" THEN pr.caller ELSE "",
     file |-> pr.file, key |-> pr.key, a |-> a, ok |-> ok, err |-> err, ret |-> ret, out |-> out, flag |-> FALSE,
     trace |-> pr.trace, reqs |-> pr.reqs, env |-> pr.env,
     before |-> before, after |-> after, temp |-> pr.temp]

\* the outcomes the environment may give the next request
Env == IF faults < MaxFaults THEN Outcomes ELSE {"ok"}

Failed(f) == IF f = "ok" THEN 0 ELSE 1

Init ==
    /\ s3 = EmptyBucket
    /\ clock = 0
    /\ faults = 0
    /\ ncalls = 0
    /\ proc = [p \in Procs |-> Idle]
    /\ done = <<>>

CanCall(p) == proc[p].pc = "idle" /\ ncalls < MaxCalls

\* the start of a call of ingest_data by the process in state pr; started is the
\* number of calls that had ended when it started
Enter(pr, a, file) ==
    [pr EXCEPT !.pc = "ingest_data", !.started = Len(done), !.a = a, !.file = file,
               !.key = "",
               !.trace = <<>>, !.reqs = <<>>, !.env = <<>>, !.before = s3]

(***************************************************************************)
(* ingest_data of the layer manager, a step per state of its machine that  *)
(* touches the bucket.                                                     *)
(***************************************************************************)
\* the validate hook: a pass-through in every tier
validate_data(tier, df) == df

\* the transform hook: the identity in raw and bronze, and by default in silver
process_data(tier, df) == df

\* RawLayerManager's override branch: a referenced source object, columnar format
bypass(a) == a.tier = "raw" /\ a.source_key # None /\ a.fmt = "parquet"

\* The end of a call of ingest_data: the record of it, and the return to its caller
\* (an exception ends ingest_raw too).
Leave(p, pr, ok, err, ret, after) ==
    LET rec == Record(pr, "ingest_data", pr.a, ok, err, ret, EmptyDF, pr.before, after)
        raised == Record([pr EXCEPT !.trace = <<>>, !.reqs = <<>>, !.env = <<>>],
                         "ingest_raw", pr.raw, FALSE, err, "", EmptyDF,
                         pr.rawbefore, after)
    IN  IF pr.caller = "ingest_raw"
        THEN IF ok
             THEN /\ proc' = [proc EXCEPT ![p] =
                        [pr EXCEPT !.pc = "raw_loop", !.a = NoArgs, !.file = "",
                                   !.key = "", !.trace = <<>>, !.reqs = <<>>,
                                   !.env = <<>>, !.before = EmptyBucket]]
                  /\ done' = Append(done, rec)
             ELSE /\ proc' = [proc EXCEPT ![p] = Idle]
                  /\ done' = done \o <<rec, raised>>
        ELSE /\ proc' = [proc EXCEPT ![p] = Idle]
             /\ done' = Append(done, rec)

\* START, VALIDATE, PROCESS, BUILD_KEY: no request is made
ingest_data(p) ==
    LET pr == proc[p]
        a == pr.a
    IN  /\ pr.pc = "ingest_data"
        /\ UNCHANGED <<s3, clock, faults, ncalls>>
        /\ IF bypass(a)
           THEN /\ proc' = [proc EXCEPT ![p] =
                      [pr EXCEPT !.pc = "check_exists",
                                 !.key = generate_key(a.tier, a.source, a.fmt, a.date,
                                                      a.partition),
                                 !.trace = <<"BUILD_KEY">>]]
                /\ UNCHANGED done
           ELSE IF empty(a.df)
           THEN Leave(p, [pr EXCEPT !.trace = <<"EMPTY">>], TRUE, NoError, "", s3)
           ELSE LET df == process_data(a.tier, validate_data(a.tier, a.df))
                IN  /\ proc' = [proc EXCEPT ![p] =
                          [pr EXCEPT !.pc = "check_exists",
                                     !.a = [a EXCEPT !.df = df],
                                     !.key = generate_key(a.tier, a.source, a.fmt,
                                                          a.date, a.partition),
                                     !.trace = <<"VALIDATE", "PROCESS", "BUILD_KEY">>]]
                    /\ UNCHANGED done

\* CHECK_EXISTS
check_exists(p) ==
    LET pr == proc[p]
    IN  /\ pr.pc = "check_exists"
        /\ \E f \in Env :
            LET r == check_file_exists(s3, pr.key, f)
                pr1 == [pr EXCEPT !.trace = Append(@, "CHECK_EXISTS"),
                                  !.reqs = Append(@, "head_object"),
                                  !.env = Append(@, f)]
            IN  /\ faults' = faults + Failed(f)
                /\ UNCHANGED <<s3, clock, ncalls>>
                /\ IF ~r.ok THEN Leave(p, pr1, FALSE, r.err, "", s3)
                   ELSE IF r.val
                   THEN Leave(p, [pr1 EXCEPT !.trace = Append(@, "SKIP")],
                              TRUE, NoError, pr.key, s3)
                   ELSE /\ proc' = [proc EXCEPT ![p] = [pr1 EXCEPT !.pc = "write"]]
                        /\ UNCHANGED done

\* Variant: the bypass decodes the bytes and writes them with its own writer.
write_bytes_reencoded(bucket, body, key, metadata, t, f) ==
    LET s3_metadata == prepare_metadata(metadata, "parquet", <<>>, t)
        r == put_object(bucket, key, to_parquet(from_parquet(body)),
                        "application/octet-stream", s3_metadata, f)
    IN  IF r.ok THEN Return(r.val) ELSE Raise(r.err)

\* write(key, bytes, metadata) of the bypass: the bytes as they are, metadata
\* without rows and columns
write_bytes_to_s3(bucket, body, key, metadata, t, f) ==
    LET s3_metadata == prepare_metadata(metadata, "parquet", <<>>, t)
        r == put_object(bucket, key, body, "application/octet-stream", s3_metadata, f)
    IN  IF r.ok THEN Return(r.val) ELSE Raise(r.err)

\* SERIALIZE, CHECKSUM, BUILD_METADATA, WRITE of a call with arguments a and key
\* key: the states passed, the requests made, and the bucket after or the error.
write_data(bucket, a, key, t, f) ==
    IF bypass(a)
    THEN LET b == read_bytes(a.source_key)
         IN  IF ~b.ok
             THEN [ok |-> FALSE, err |-> b.err, val |-> bucket,
                   trace |-> <<"READ_SOURCE">>, reqs |-> <<>>]
             ELSE LET meta == build_metadata(a.source, a.tier, a.date,
                                             hexdigest(b.val), a.fmt, a.metadata)
                      w == write_bytes_to_s3(bucket, b.val, key, meta, t, f)
                  IN  [ok |-> w.ok, err |-> w.err,
                       val |-> IF w.ok THEN w.val ELSE bucket,
                       trace |-> <<"READ_SOURCE", "CHECKSUM", "BUILD_METADATA", "WRITE">>,
                       reqs |-> <<"put_object">>]
    ELSE LET ser == serialize(a.df, a.fmt)
         IN  IF ~ser.ok
             THEN [ok |-> FALSE, err |-> ser.err, val |-> bucket,
                   trace |-> <<"SERIALIZE">>, reqs |-> <<>>]
             ELSE LET meta == build_metadata(a.source, a.tier, a.date,
                                             hexdigest(ser.val), a.fmt, a.metadata)
                                  \o table_metadata(a.df)
                      w == IF a.fmt = "parquet"
                           THEN write_parquet_to_s3(bucket, a.df, key, meta, t, f)
                           ELSE IF a.fmt = "csv"
                           THEN write_csv_to_s3(bucket, a.df, key, meta, t, f)
                           ELSE write_json_to_s3(bucket, a.df, key, meta, t, f)
                  IN  [ok |-> w.ok, err |-> w.err,
                       val |-> IF w.ok THEN w.val ELSE bucket,
                       trace |-> <<"SERIALIZE", "CHECKSUM", "BUILD_METADATA", "WRITE">>,
                       reqs |-> <<"put_object">>]

write(p) ==
    LET pr == proc[p]
    IN  /\ pr.pc = "write"
        /\ \E f \in Env :
            LET w == write_data(s3, pr.a, pr.key, clock, f)
                requested == Len(w.reqs) > 0
                pr1 == [pr EXCEPT !.trace = @ \o w.trace, !.reqs = @ \o w.reqs,
                                  !.env = IF requested THEN Append(@, f) ELSE @]
            IN  /\ requested \/ f = "ok"
                /\ faults' = faults + (IF requested THEN Failed(f) ELSE 0)
                /\ clock' = IF requested THEN clock + 1 ELSE clock
                /\ s3' = w.val
                /\ UNCHANGED ncalls
                /\ Leave(p, pr1, w.ok, w.err, IF w.ok THEN pr.key ELSE "", w.val)

\* a caller calls ingest_data of the manager of (source, tier)
CallIngestData(p) ==
    /\ CanCall(p)
    /\ \E a \in IngestCalls :
        proc' = [proc EXCEPT ![p] =
            Enter([Idle EXCEPT !.id = ncalls + 1, !.caller = "top"], a, "")]
    /\ ncalls' = ncalls + 1
    /\ UNCHANGED <<s3, clock, faults, done>>

(***************************************************************************)
(* ingest_raw of src/bronze/transactions.py: every file of the data        *)
(* directory, in the order the directory lists them.                       *)
(***************************************************************************)
CallIngestRaw(p) ==
    /\ proc[p].pc = "idle"
    /\ ncalls < MaxRuns
    /\ \E source \in Sources, date \in {D1}, files \in SUBSET DataFiles :
        /\ Cardinality(files) \in 1..MaxDirFiles
        /\ proc' = [proc EXCEPT ![p] =
              [Idle EXCEPT !.id = ncalls + 1, !.pc = "raw_loop", !.caller = "ingest_raw",
                           !.raw = Args("raw", source, EmptyDF, date, "", <<>>, <<>>,
                                        None, "", {f.name : f \in files}),
                           !.rawfiles = files, !.rawbefore = s3]]
    /\ ncalls' = ncalls + 1
    /\ UNCHANGED <<s3, clock, faults, done>>

\* file.suffix.lstrip('.').lower()
file_format(file) == lower(lstrip_dot(file_suffix(file.name)))

\* one turn of `for file in list_dataset_files(data_dir)`, up to the call of
\* mgr.ingest_data
raw_loop(p) ==
    LET pr == proc[p]
        source == pr.raw.source
        processing_date == pr.raw.date
    IN  /\ pr.pc = "raw_loop"
        /\ UNCHANGED <<s3, clock, faults, ncalls>>
        /\ IF pr.rawfiles = {}
           THEN /\ proc' = [proc EXCEPT ![p] = Idle]
                /\ done' = Append(done, Record(pr, "ingest_raw", pr.raw, TRUE, NoError,
                                               "", EmptyDF, pr.rawbefore, s3))
           ELSE \E file \in pr.rawfiles :
                LET fmt == file_format(file)
                    rest == [pr EXCEPT !.rawfiles = @ \ {file}]
                    df == IF fmt = "csv" THEN read_csv(file) ELSE read_json(file)
                IN  IF fmt = "parquet"
                    THEN /\ proc' = [proc EXCEPT ![p] =
                               Enter(rest,
                                     Args("raw", source, EmptyDF, processing_date,
                                          "parquet", ymd(processing_date),
                                          << <<"original_format", "parquet">> >>,
                                          path_of(file), "", {}),
                                     file.name)]
                         /\ UNCHANGED done
                    ELSE IF ~df.ok
                    THEN /\ proc' = [proc EXCEPT ![p] = Idle]
                         /\ done' = Append(done,
                               Record([pr EXCEPT !.file = file.name], "ingest_raw",
                                      pr.raw, FALSE, df.err, "", EmptyDF,
                                      pr.rawbefore, s3))
                    ELSE /\ proc' = [proc EXCEPT ![p] =
                               Enter(rest,
                                     Args("raw", source, df.val, processing_date, fmt,
                                          ymd(processing_date),
                                          << <<"original_format", fmt>> >>,
                                          None, "", {}),
                                     file.name)]
                         /\ UNCHANGED done

(***************************************************************************)
(* load_from_previous_layer of the layer manager.                          *)
(***************************************************************************)
CallLoad(p) ==
    /\ CanCall(p)
    /\ \E tier \in LoadTiers, source \in Sources, fmt \in LoadFormats :
        proc' = [proc EXCEPT ![p] =
            [Idle EXCEPT !.id = ncalls + 1, !.pc = "list", !.caller = "top",
                         !.a = Args(tier, source, EmptyDF, D1, fmt, <<>>, <<>>, None,
                                    "", {}),
                         !.before = s3]]
    /\ ncalls' = ncalls + 1
    /\ UNCHANGED <<s3, clock, faults, done>>

\* the keys of the predecessor tier of this source that end with the format suffix
list(p) ==
    LET pr == proc[p]
        a == pr.a
    IN  /\ pr.pc = "list"
        /\ UNCHANGED <<s3, clock, ncalls>>
        /\ \E f \in Env :
            LET r == list_objects(s3, layer_prefix(predecessor(a.tier), a.source),
                                  "." \o a.fmt, f)
                pr1 == [pr EXCEPT !.reqs = Append(@, "list_objects_v2"),
                                  !.env = Append(@, f)]
            IN  /\ faults' = faults + Failed(f)
                /\ IF ~r.ok
                   THEN /\ proc' = [proc EXCEPT ![p] = Idle]
                        /\ done' = Append(done,
                              Record(pr1, "load_from_previous_layer", a, FALSE, r.err,
                                     "", EmptyDF, pr.before, s3))
                   ELSE IF Len(r.val) = 0
                   THEN /\ proc' = [proc EXCEPT ![p] = Idle]
                        /\ done' = Append(done,
                              Record(pr1, "load_from_previous_layer", a, TRUE, NoError,
                                     "", EmptyDF, pr.before, s3))
                   ELSE /\ proc' = [proc EXCEPT ![p] =
                              [pr1 EXCEPT !.pc = "read", !.keys = r.val]]
                        /\ UNCHANGED done

\* read and deserialize the next key; after the last, concatenate
read(p) ==
    LET pr == proc[p]
        a == pr.a
        key == Head(pr.keys)
    IN  /\ pr.pc = "read"
        /\ UNCHANGED <<s3, clock, ncalls>>
        /\ \E fh \in Env, fg \in Env :
            LET r == IF a.fmt = "parquet" THEN read_parquet_from_s3(s3, key, fh, fg)
                     ELSE read_csv_from_s3(s3, key, fh, fg)
                got == fh = "ok"
                pr1 == [pr EXCEPT
                          !.reqs = @ \o (IF got THEN <<"head_object", "get_object">>
                                         ELSE <<"head_object">>),
                          !.env = @ \o (IF got THEN <<fh, fg>> ELSE <<fh>>),
                          !.trace = Append(@, key)]
            IN  /\ fh # "ok" => fg = "ok"
                /\ faults' = faults + Failed(fh) + Failed(fg)
                /\ IF ~r.ok
                   THEN /\ proc' = [proc EXCEPT ![p] = Idle]
                        /\ done' = Append(done,
                              Record(pr1, "load_from_previous_layer", a, FALSE, r.err,
                                     "", EmptyDF, pr.before, s3))
                   ELSE IF Len(pr.keys) = 1
                   THEN /\ proc' = [proc EXCEPT ![p] = Idle]
                        /\ done' = Append(done,
                              Record(pr1, "load_from_previous_layer", a, TRUE, NoError,
                                     "", concat(Append(pr.dfs, r.val)), pr.before, s3))
                   ELSE /\ proc' = [proc EXCEPT ![p] =
                              [pr1 EXCEPT !.keys = Tail(@), !.dfs = Append(@, r.val)]]
                        /\ UNCHANGED done

(***************************************************************************)
(* The functions of utils/s3_utils.py called on their own.                 *)
(***************************************************************************)
CallCheckFileExists(p) ==
    /\ CanCall(p)
    /\ \E key \in DirectKeys, f \in Env :
        LET r == check_file_exists(s3, key, f)
            pr == [Idle EXCEPT !.id = ncalls + 1, !.reqs = <<"head_object">>,
                               !.env = <<f>>]
            rec == Record(pr, "check_file_exists", [NoArgs EXCEPT !.key = key],
                          r.ok, r.err, "", EmptyDF, s3, s3)
        IN  /\ faults' = faults + Failed(f)
            /\ done' = Append(done, [rec EXCEPT !.flag = r.ok /\ r.val])
    /\ ncalls' = ncalls + 1
    /\ UNCHANGED <<s3, clock, proc>>

CallReadParquet(p) ==
    /\ CanCall(p)
    /\ \E key \in DirectKeys, fh \in Env, fg \in Env :
        LET r == read_parquet_from_s3(s3, key, fh, fg)
            got == fh = "ok" /\ key \in DOMAIN s3
            pr == [Idle EXCEPT !.id = ncalls + 1,
                               !.reqs = IF got THEN <<"head_object", "get_object">>
                                        ELSE <<"head_object">>,
                               !.env = IF got THEN <<fh, fg>> ELSE <<fh>>]
        IN  /\ ~got => fg = "ok"
            /\ faults' = faults + Failed(fh) + Failed(fg)
            /\ done' = Append(done,
                  Record(pr, "read_parquet_from_s3", [NoArgs EXCEPT !.key = key],
                         r.ok, r.err, "", IF r.ok THEN r.val ELSE EmptyDF, s3, s3))
    /\ ncalls' = ncalls + 1
    /\ UNCHANGED <<s3, clock, proc>>

CallWrite(p) ==
    /\ CanCall(p)
    /\ \E key \in DirectKeys, df \in {DfA}, metadata \in CallerMetadata,
          fmt \in {"csv", "parquet"}, f \in Env :
        LET w == IF fmt = "csv" THEN write_csv_to_s3(s3, df, key, metadata, clock, f)
                 ELSE write_parquet_to_s3(s3, df, key, metadata, clock, f)
            pr == [Idle EXCEPT !.id = ncalls + 1, !.reqs = <<"put_object">>,
                               !.env = <<f>>]
            after == IF w.ok THEN w.val ELSE s3
        IN  /\ faults' = faults + Failed(f)
            /\ s3' = after
            /\ done' = Append(done,
                  Record(pr, IF fmt = "csv" THEN "write_csv_to_s3"
                             ELSE "write_parquet_to_s3",
                         [NoArgs EXCEPT !.key = key, !.df = df, !.metadata = metadata,
                                        !.fmt = fmt],
                         w.ok, w.err, "", EmptyDF, s3, after))
    /\ clock' = clock + 1
    /\ ncalls' = ncalls + 1
    /\ UNCHANGED proc

(***************************************************************************)
(* write_parquet_to_s3 with partition_cols, a step per call that may fail  *)
(* or that another step may follow: mkdtemp, write_to_dataset, and a       *)
(* put_object per file in the order os.walk gives them.                    *)
(***************************************************************************)
PartitionKeys == {"silver/transactions"}

PartitionCols == {<<"id">>, <<"amount">>, <<"region">>}

\* the end of the call: it returns, or the exception is logged and raised again
LeaveWrite(p, pr, ok, err, after) ==
    /\ proc' = [proc EXCEPT ![p] = [Idle EXCEPT !.temp = pr.temp]]
    /\ done' = Append(done, Record(pr, "write_parquet_to_s3", pr.a, ok, err, "",
                                   EmptyDF, pr.before, after))

\* the call, up to tempfile.mkdtemp()
CallWritePartitioned(p) ==
    /\ CanCall(p)
    /\ \E key \in PartitionKeys, df \in {DfA, DfB}, partition_cols \in PartitionCols :
        LET id == ncalls + 1
            temp_dir == mkdtemp_name(id)
        IN  proc' = [proc EXCEPT ![p] =
                [Idle EXCEPT !.id = id, !.started = Len(done), !.pc = "write_to_dataset",
                             !.a = [NoArgs EXCEPT !.key = key, !.df = df,
                                                  !.fmt = "parquet",
                                                  !.partition = partition_cols],
                             !.before = s3,
                             !.s3_metadata = prepare_metadata(<<>>, "parquet",
                                                              shape(df), clock),
                             !.temp_dir = temp_dir,
                             !.temp = (temp_dir :> <<>>) @@ proc[p].temp]]
    /\ clock' = clock + 1
    /\ ncalls' = ncalls + 1
    /\ UNCHANGED <<s3, faults, done>>

\* pq.write_to_dataset into the temporary directory
write_dataset(p) ==
    LET pr == proc[p]
        r == write_to_dataset(pr.a.df, pr.a.partition)
    IN  /\ pr.pc = "write_to_dataset"
        /\ UNCHANGED <<s3, clock, faults, ncalls>>
        /\ IF ~r.ok
           THEN LeaveWrite(p, [pr EXCEPT !.temp = finally_rmtree(@, pr.temp_dir, TRUE)],
                           FALSE, r.err, s3)
           ELSE IF DOMAIN r.val = {}
           THEN LeaveWrite(p, [pr EXCEPT !.temp = finally_rmtree(@, pr.temp_dir, FALSE)],
                           TRUE, NoError, s3)
           ELSE /\ proc' = [proc EXCEPT ![p] =
                      [pr EXCEPT !.pc = "upload", !.todo = DOMAIN r.val,
                                 !.temp = (pr.temp_dir :> r.val) @@ @]]
                /\ UNCHANGED done

\* the next file of os.walk: one put_object; after the last one, or when the
\* request fails, the finally clause runs and the call ends
upload(p) ==
    LET pr == proc[p]
    IN  /\ pr.pc = "upload"
        /\ \E file \in pr.todo, f \in Env :
            LET s3_file_key == path_join(pr.a.key, file)
                r == put_object(s3, s3_file_key, pr.temp[pr.temp_dir][file],
                                "application/octet-stream", pr.s3_metadata, f)
                pr1 == [pr EXCEPT !.reqs = Append(@, "put_object"),
                                  !.env = Append(@, f),
                                  !.todo = @ \ {file}]
            IN  /\ faults' = faults + Failed(f)
                /\ UNCHANGED <<clock, ncalls>>
                /\ IF ~r.ok
                   THEN /\ s3' = s3
                        /\ LeaveWrite(p, [pr1 EXCEPT
                                             !.temp = finally_rmtree(@, pr.temp_dir, TRUE)],
                                      FALSE, r.err, s3)
                   ELSE /\ s3' = r.val
                        /\ IF pr1.todo = {}
                           THEN LeaveWrite(p,
                                    [pr1 EXCEPT !.trace = Append(@, s3_file_key),
                                                !.temp = finally_rmtree(@, pr.temp_dir,
                                                                        FALSE)],
                                    TRUE, NoError, r.val)
                           ELSE /\ proc' = [proc EXCEPT ![p] =
                                      [pr1 EXCEPT !.trace = Append(@, s3_file_key)]]
                                /\ UNCHANGED done

(***************************************************************************)
(* Specifications.  The driver is one sequential script: a call starts     *)
(* when the call before it has returned or raised.                         *)
(***************************************************************************)
Main == "p1"

\* calls of ingest_data
Next ==
    \/ CallIngestData(Main)
    \/ ingest_data(Main)
    \/ check_exists(Main)
    \/ write(Main)

Spec == Init /\ [][Next]_vars

\* runs of ingest_raw over a data directory
RawNext ==
    \/ CallIngestRaw(Main)
    \/ raw_loop(Main)
    \/ ingest_data(Main)
    \/ check_exists(Main)
    \/ write(Main)

RawSpec == Init /\ [][RawNext]_vars

\* calls of the functions of utils/s3_utils.py
S3Next ==
    \/ CallWrite(Main)
    \/ CallCheckFileExists(Main)
    \/ CallReadParquet(Main)

S3Spec == Init /\ [][S3Next]_vars

\* Ingestions that have run before a load, each without a failure.
Seeds ==
    << Args("raw", "transactions", DfA, D1, "parquet", <<>>, <<>>, None, "", {}),
       Args("raw", "transactions", DfB, D2, "parquet", <<>>, <<>>, None, "", {}),
       Args("raw", "transactions", DfB, D1, "csv", <<>>, <<>>, None, "", {}),
       Args("bronze", "transactions", DfB, D1, "parquet", <<>>, <<>>, None, "", {}),
       Args("raw", "transactions", EmptyDF, D2, "parquet", ymd(D2),
            << <<"original_format", "parquet">> >>, "data/c.parquet", "", {}) >>

\* the bucket after the ingestions of Seeds numbered in chosen, in order
RECURSIVE Ingested(_, _)
Ingested(chosen, n) ==
    IF n = 0 THEN EmptyBucket
    ELSE LET bucket == Ingested(chosen, n - 1)
             a == Seeds[n]
         IN  IF n \in chosen
             THEN write_data(bucket, a,
                             generate_key(a.tier, a.source, a.fmt, a.date, a.partition),
                             Cardinality(DOMAIN bucket), "ok").val
             ELSE bucket

LoadInit ==
    /\ s3 \in {Ingested(chosen, Len(Seeds)) : chosen \in SUBSET (1..Len(Seeds))}
    /\ clock = Cardinality(DOMAIN s3)
    /\ faults = 0
    /\ ncalls = 0
    /\ proc = [p \in Procs |-> Idle]
    /\ done = <<>>

\* calls of load_from_previous_layer
LoadNext ==
    \/ CallLoad(Main)
    \/ list(Main)
    \/ read(Main)

LoadSpec == LoadInit /\ [][LoadNext]_vars

\* a second process that uses the same bucket
Second == "p2"

\* the calls the two processes make, all for one key: two frames and the
\* referenced file
ConcurrentCalls ==
    {a \in IngestCalls :
        /\ a.tier = "raw"
        /\ \/ a.fmt = "parquet" /\ a.df \in {DfA, DfB} /\ a.source_key = None
           \/ a.fmt = "parquet" /\ a.df = EmptyDF /\ a.source_key # None}

\* a process calls ingest_data while the other may be in a call of its own
CallConcurrently(p) ==
    /\ CanCall(p)
    /\ \E a \in ConcurrentCalls :
        proc' = [proc EXCEPT ![p] =
            Enter([Idle EXCEPT !.id = ncalls + 1, !.caller = "top"], a, "")]
    /\ ncalls' = ncalls + 1
    /\ UNCHANGED <<s3, clock, faults, done>>

\* calls of ingest_data by two processes, their steps interleaved: between the
\* head_object of CHECK_EXISTS and the put_object of WRITE of one call the other
\* process may take any of its steps
RaceNext ==
    \/ CallConcurrently(Main)
    \/ ingest_data(Main)
    \/ check_exists(Main)
    \/ write(Main)
    \/ CallConcurrently(Second)
    \/ ingest_data(Second)
    \/ check_exists(Second)
    \/ write(Second)

RaceSpec == Init /\ [][RaceNext]_vars

\* calls of write_parquet_to_s3 with partition_cols
PartNext ==
    \/ CallWritePartitioned(Main)
    \/ write_dataset(Main)
    \/ upload(Main)

PartSpec == Init /\ [][PartNext]_vars

(***************************************************************************)
(* Properties.                                                             *)
(***************************************************************************)
Has(seq, x) == \E i \in 1..Len(seq) : seq[i] = x

AllOk(env) == \A i \in 1..Len(env) : env[i] = "ok"

\* the call ended with a put_object request that succeeded
Wrote(r) == r.ok /\ Len(r.reqs) > 0 /\ r.reqs[Len(r.reqs)] = "put_object"

Puts(r) == IF Wrote(r) THEN 1 ELSE 0

\* the call passed none of SERIALIZE, CHECKSUM, WRITE and made no put_object request
NoWriteSteps(r) ==
    /\ ~Has(r.trace, "SERIALIZE")
    /\ ~Has(r.trace, "CHECKSUM")
    /\ ~Has(r.trace, "WRITE")
    /\ ~Has(r.reqs, "put_object")

IngestRecords == {i \in 1..Len(done) : done[i].op = "ingest_data"}

\* calls i and i + 1 are ingest_data calls with identical arguments that returned
SamePair(i) ==
    /\ i \in IngestRecords
    /\ i + 1 \in IngestRecords
    /\ done[i].a = done[i + 1].a
    /\ done[i].ok
    /\ done[i + 1].ok

\* a raw-tier call with a source_key reference and format parquet
BypassCall(a) == a.tier = "raw" /\ a.source_key # None /\ a.fmt = "parquet"

ZeroRows(a) == Len(a.df.rows) = 0

\* the bytes of the file a source_key refers to
FileBytes(source_key) == (CHOOSE file \in DataFiles : path_of(file) = source_key).content

\* C1 as stated: two sequential ingest_data calls with identical arguments cause
\* exactly one write, and the second returns the first's key, passes no serialize,
\* checksum or write step and leaves the bucket as it was.
C1_ExactlyOneWrite ==
    \A i \in 1..Len(done) :
        SamePair(i) =>
            /\ Puts(done[i]) + Puts(done[i + 1]) = 1
            /\ done[i + 1].ret = done[i].ret
            /\ NoWriteSteps(done[i + 1])
            /\ done[i + 1].after = done[i + 1].before

\* C1 amended: of two sequential ingest_data calls with identical arguments that
\* both return, the second returns the first's key, passes no serialize, checksum
\* or write step and leaves the bucket as it was; the two cause exactly one write
\* when the dataset has rows (or the call is a bypass call) and the key was not
\* stored before the first call, and no write otherwise.
C1_IdempotentIngestion ==
    \A i \in 1..Len(done) :
        SamePair(i) =>
            LET r1 == done[i]
                r2 == done[i + 1]
                skipped == (ZeroRows(r1.a) /\ ~BypassCall(r1.a))
                              \/ r1.key \in DOMAIN r1.before
            IN  /\ r2.ret = r1.ret
                /\ NoWriteSteps(r2)
                /\ r2.after = r2.before
                /\ Puts(r1) + Puts(r2) = IF skipped THEN 0 ELSE 1
                /\ ~skipped => r1.key \in DOMAIN r2.after /\ Has(r2.trace, "SKIP")

\* two identical calls with a dataset that has rows: the first wrote, the second
\* found the key
C1_Witness ==
    \E i \in 1..Len(done) :
        /\ SamePair(i)
        /\ ~ZeroRows(done[i].a)
        /\ Wrote(done[i])
        /\ Has(done[i + 1].trace, "SKIP")

\* C2 as stated: every ingest_data call with a dataset of zero rows returns the
\* empty key, makes no request to the bucket and leaves it as it was.
C2_EmptyShortCircuit ==
    \A i \in IngestRecords :
        ZeroRows(done[i].a) =>
            /\ done[i].ok
            /\ done[i].ret = ""
            /\ done[i].reqs = <<>>
            /\ done[i].after = done[i].before

\* C2 amended: every ingest_data call with a dataset of zero rows, other than a
\* raw-tier call with a source_key reference and format parquet, returns the empty
\* key, makes no request to the bucket and leaves it as it was.
C2_EmptyShortCircuitOutsideBypass ==
    \A i \in IngestRecords :
        ZeroRows(done[i].a) /\ ~BypassCall(done[i].a) =>
            /\ done[i].ok
            /\ done[i].ret = ""
            /\ done[i].reqs = <<>>
            /\ done[i].trace = <<"EMPTY">>
            /\ done[i].after = done[i].before

\* a call with a zero-row dataset and an unsupported format returned the empty key
C2_Witness ==
    \E i \in IngestRecords :
        /\ ZeroRows(done[i].a)
        /\ ~BypassCall(done[i].a)
        /\ done[i].a.fmt = "xlsx"
        /\ done[i].ret = ""

C4_DistinctFilesDistinctKeys ==
    \A i \in IngestRecords, j \in IngestRecords :
        /\ done[i].caller = "ingest_raw"
        /\ done[j].caller = "ingest_raw"
        /\ done[i].id = done[j].id
        /\ done[i].file # done[j].file
        /\ done[i].key # ""
        => done[i].key # done[j].key

\* C5: the rows, columns and checksum entries of the metadata of an object written
\* by write_csv_to_s3 or write_parquet_to_s3 are those recomputed from the data
\* written, whatever entries the caller's mapping has.
C5_ReservedKeysRecomputed ==
    \A i \in 1..Len(done) :
        done[i].op \in {"write_csv_to_s3", "write_parquet_to_s3"} /\ done[i].ok =>
            LET r == done[i]
                obj == r.after[r.a.key]
                m == obj.Metadata
            IN  /\ m["rows"] = Str(Len(r.a.df.rows))
                /\ m["columns"] \in {Str(Len(r.a.df.columns)), join(",", r.a.df.columns)}
                /\ "checksum" \in DOMAIN m => m["checksum"] = hexdigest(obj.Body)

C7_UnsupportedFormatError ==
    faults = 0 =>
        \A i \in 1..Len(done) :
            /\ done[i].op = "ingest_raw"
            /\ done[i].file # ""
            /\ lower(lstrip_dot(file_suffix(done[i].file))) \notin SupportedFormats
            => /\ done[i].err = UnsupportedFormatError
               /\ done[i].after = done[i].before

\* the keys a load of format fmt for (tier, source) is to read in bucket
Expected(bucket, tier, source, fmt) ==
    {k \in DOMAIN bucket :
        /\ startswith(k, predecessor(tier) \o "/" \o source \o "/")
        /\ endswith(k, "." \o fmt)}

\* the frame an object of the format decodes to
Decode(fmt, body) ==
    IF fmt = "parquet" THEN [columns |-> body.columns, rows |-> body.rows]
    ELSE from_csv(body)

RECURSIVE RowsOf(_, _, _)
RowsOf(bucket, fmt, keys) ==
    IF Len(keys) = 0 THEN <<>>
    ELSE Decode(fmt, bucket[keys[1]].Body).rows \o RowsOf(bucket, fmt, Tail(keys))

\* C8: load_from_previous_layer reads exactly the objects under the predecessor
\* tier's prefix for the source whose key ends with the format suffix, each once,
\* and returns their rows concatenated; with no such object it returns the empty
\* frame without reading any object; it raises only when a request fails.
C8_LoadFromPreviousLayer ==
    \A i \in 1..Len(done) :
        done[i].op = "load_from_previous_layer" =>
            LET r == done[i]
                keys == Sorted(Expected(r.before, r.a.tier, r.a.source, r.a.fmt))
            IN  /\ AllOk(r.env) => r.ok
                /\ r.ok =>
                    /\ r.trace = keys
                    /\ r.out.rows = RowsOf(r.before, r.a.fmt, keys)
                    /\ Len(keys) = 0 =>
                          r.out = EmptyDF /\ r.reqs = <<"list_objects_v2">>

\* a load read two objects and left out another object of the bucket
C8_Witness ==
    \E i \in 1..Len(done) :
        /\ done[i].op = "load_from_previous_layer"
        /\ done[i].ok
        /\ Len(done[i].trace) >= 2
        /\ Len(done[i].out.rows) = 4
        /\ \E k \in DOMAIN done[i].before : ~Has(done[i].trace, k)

\* C9: check_file_exists returns True exactly when the head request succeeds and
\* False exactly when the bucket has no such key; every other failure of the
\* request is raised as it is; read_parquet_from_s3 of a key the bucket does not
\* have raises.
C9_FailuresNotConflated ==
    \A i \in 1..Len(done) :
        LET r == done[i]
            present == r.a.key \in DOMAIN r.before
        IN  /\ r.op = "check_file_exists" =>
                /\ r.env[1] = "ok" => r.ok /\ (r.flag <=> present)
                /\ r.env[1] = "403" => ~r.ok /\ r.err = ClientError("403")
                /\ r.env[1] = "conn" => ~r.ok /\ r.err = EndpointConnectionError
            /\ r.op = "read_parquet_from_s3" =>
                /\ ~present => ~r.ok
                /\ ~present /\ r.env[1] = "ok" => r.err = FileNotFoundError
                /\ r.env[1] = "403" => ~r.ok /\ r.err = ClientError("403")
                /\ r.env[1] = "conn" => ~r.ok /\ r.err = EndpointConnectionError

\* check_file_exists has answered False for an absent key and raised the 403 of a
\* failed request
C9_Witness ==
    /\ \E i \in 1..Len(done) :
          /\ done[i].op = "check_file_exists"
          /\ done[i].ok
          /\ ~done[i].flag
    /\ \E i \in 1..Len(done) :
          /\ done[i].op = "check_file_exists"
          /\ done[i].err = ClientError("403")

\* the calls that wrote the key, in the order they ended
Writers(k) == {i \in IngestRecords : Wrote(done[i]) /\ done[i].ret = k}

\* call j started before call i ended (i ended first)
Overlapped(i, j) == done[j].started < i

\* the bytes a call's write stores
WrittenBytes(a) ==
    IF BypassCall(a) THEN FileBytes(a.source_key) ELSE serialize(a.df, a.fmt).val

\* C11: two calls that wrote the same key ran concurrently (calls run one after
\* another never write a key twice), both saw the key absent at CHECK_EXISTS, and
\* the object stored under a key is the one of the write that came last.
C11_CheckThenWriteRace ==
    /\ \A i \in IngestRecords, j \in IngestRecords :
          i < j /\ Wrote(done[i]) /\ Wrote(done[j]) /\ done[i].ret = done[j].ret =>
              /\ Overlapped(i, j)
              /\ done[i].ret \notin DOMAIN done[i].before
              /\ done[j].ret \notin DOMAIN done[j].before
              /\ Has(done[i].trace, "CHECK_EXISTS") /\ ~Has(done[i].trace, "SKIP")
              /\ Has(done[j].trace, "CHECK_EXISTS") /\ ~Has(done[j].trace, "SKIP")
    /\ \A k \in DOMAIN s3 :
          Writers(k) # {} =>
              LET last == CHOOSE i \in Writers(k) : \A j \in Writers(k) : j <= i
              IN  /\ s3[k] = done[last].after[k]
                  /\ s3[k].Body = WrittenBytes(done[last].a)

\* two concurrent calls with different frames both wrote the key, and the object
\* stored is the later one's, not the earlier one's
C11_Witness ==
    \E i \in IngestRecords, j \in IngestRecords :
        /\ i < j
        /\ Wrote(done[i])
        /\ Wrote(done[j])
        /\ done[i].ret = done[j].ret
        /\ Overlapped(i, j)
        /\ WrittenBytes(done[i].a) # WrittenBytes(done[j].a)
        /\ s3[done[j].ret].Body = WrittenBytes(done[j].a)

\* the calls of write_parquet_to_s3 with partition_cols that have ended
PartitionedRecords ==
    {i \in 1..Len(done) :
        done[i].op = "write_parquet_to_s3" /\ Len(done[i].a.partition) > 0}

\* the object keys of the files the call writes
PartitionObjects(a) ==
    LET w == write_to_dataset(a.df, a.partition)
    IN  IF w.ok THEN {path_join(a.key, file) : file \in DOMAIN w.val} ELSE {}

\* C12: when write_parquet_to_s3 with partition_cols ends, returning or raising,
\* the temporary directory it created does not exist; when writing the dataset
\* or a put_object fails, that error is raised to the caller and the objects put
\* before it are in the bucket; when it returns, every partition file is.
C12_TempDirRemoved ==
    /\ \A p \in Procs : proc[p].pc = "idle" => DOMAIN proc[p].temp = {}
    /\ \A i \in PartitionedRecords :
          LET r == done[i]
              w == write_to_dataset(r.a.df, r.a.partition)
              put == {r.trace[n] : n \in 1..Len(r.trace)}
          IN  /\ DOMAIN r.temp = {}
              /\ put \subseteq PartitionObjects(r.a)
              /\ \A k \in put :
                    /\ k \in DOMAIN r.after
                    /\ r.after[k].Body \in {w.val[file] : file \in DOMAIN w.val}
              /\ \A k \in DOMAIN r.before \ put :
                    k \in DOMAIN r.after /\ r.after[k] = r.before[k]
              /\ DOMAIN r.after = DOMAIN r.before \cup put
              /\ r.ok <=> w.ok /\ AllOk(r.env)
              /\ r.ok => put = PartitionObjects(r.a)
              /\ ~w.ok => r.err = w.err /\ r.reqs = <<>>
              /\ w.ok /\ ~r.ok =>
                    /\ r.err = FaultError(r.env[Len(r.env)])
                    /\ Len(r.trace) = Len(r.reqs) - 1

\* a call raised at its second put_object: the first file's object is in the
\* bucket, the other files' are not, and the temporary directory is gone
C12_Witness ==
    \E i \in PartitionedRecords :
        /\ ~done[i].ok
        /\ Len(done[i].trace) = 1
        /\ done[i].err = ClientError("403")
        /\ done[i].trace[1] \in DOMAIN s3
        /\ Cardinality(PartitionObjects(done[i].a)) = 3
        /\ DOMAIN done[i].temp = {}

====
